---- MODULE Spec2Model ----
(***************************************************************************)
(* A model of the Coursera scraping client:                                *)
(*   src/src/course_catalog.py   extract_coursera_courses, convert_to_csv  *)
(*   src/src/course_details.py   extract_basic_info                        *)
(*   src/src/storage.py          upload_to_gcs, ensure_bucket_exists       *)
(* Each function is a state machine of its own; the four specifications    *)
(* SpecCatalog, SpecDetails, SpecStorage and SpecCsv run one of them and   *)
(* leave the variables of the others at rest.                              *)
(***************************************************************************)
EXTENDS Integers, Sequences, FiniteSets, TLC

VARIABLES
    \* extract_coursera_courses
    max_retries,    \* the max_retries argument
    limit,          \* the limit argument
    pc,             \* "attempt" (in the endpoint loops), "fallback", "returned", "raised", "off"
    endpoint,       \* index into Endpoints of the endpoint being tried
    attempt,        \* the loop variable attempt, 0-based
    log,            \* history: the requests issued and sleeps taken, in order
    seen,           \* history: the kinds of failed attempts so far
    resp,           \* the last response received
    courses,        \* the local list courses built from the last response
    result,         \* the value returned
    \* extract_basic_info
    response_data,  \* the argument
    info,           \* the value returned
    dpc,            \* "call", "returned", "raised", "off"
    \* upload_to_gcs / ensure_bucket_exists
    libAvailable,   \* whether `from google.cloud import storage` succeeds
    bucketExists,   \* the bucket exists at the storage service
    policy,         \* the bucket's IAM policy bindings at the storage service
    blobs,          \* the blobs uploaded to the bucket
    storage0,       \* history: bucketExists and policy before the first call
    ops,            \* history: the storage operations performed so far
    granted,        \* history: per user, the bindings appended by ensure_bucket_exists
    succeeded,      \* history: the users a call of ensure_bucket_exists returned True for
    called,         \* history: the functions called so far
    last,           \* history: the last call made (fn "off": the functions are not run)
    \* convert_to_csv
    csvIn,          \* the argument courses
    rows,           \* processed_courses, the rows handed to the data frame
    csvRet,         \* "path", "None", "raised" or "pending"
    cpc             \* "call", "done", "off"

catalogVars == <<max_retries, limit, pc, endpoint, attempt, log, seen, resp, courses, result>>
detailVars  == <<response_data, info, dpc>>
storageVars == <<libAvailable, bucketExists, policy, blobs, storage0, ops, granted, succeeded, called, last>>
csvVars     == <<csvIn, rows, csvRet, cpc>>
vars == <<catalogVars, detailVars, storageVars, csvVars>>

-----------------------------------------------------------------------------
(* Bounds of the model *)

MaxRetries == 3     \* max_retries ranges over 0..MaxRetries
MaxElems == 2       \* longest list of entries in a response body
MaxLimit == 2       \* limit ranges over 1..MaxLimit

-----------------------------------------------------------------------------
(* JSON values as Python sees them after json.loads: a value carries its   *)
(* type, because the code's behaviour on a value depends on it.            *)

JNull == [t |-> "null"]
JStr(s) == [t |-> "str", v |-> s]
JNum(n) == [t |-> "num", v |-> n]
JList(q) == [t |-> "list", v |-> q]
JObj(f) == [t |-> "obj", v |-> f]

EmptyFn == [k \in {} |-> JNull]
Restrict(f, K) == [k \in K \cap DOMAIN f |-> f[k]]
Without(f, k) == [j \in DOMAIN f \ {k} |-> f[j]]

(* The outcome of evaluating a Python expression: a value, or an exception. *)
Ok(x) == [st |-> "ok", val |-> x]
Raise == [st |-> "raise"]

(* `k in x`: key membership for a dict, item membership for a list,        *)
(* substring for a str (the strings of this model are a key itself or     *)
(* share nothing with it), TypeError for None and numbers.                 *)
In(k, x) ==
    CASE x.t = "obj" -> Ok(k \in DOMAIN x.v)
      [] x.t = "list" -> Ok(\E i \in 1..Len(x.v) : x.v[i] = JStr(k))
      [] x.t = "str" -> Ok(x.v = k)
      [] OTHER -> Raise

(* `x.get(k, d)`: AttributeError unless x is a dict. *)
Get(x, k, d) ==
    IF x.t # "obj" THEN Raise
    ELSE IF k \in DOMAIN x.v THEN Ok(x.v[k]) ELSE Ok(d)

(* `x[k]` with a string key: KeyError on a dict without it, TypeError on   *)
(* anything that is not a dict.                                            *)
Sub(x, k) ==
    IF x.t = "obj" /\ k \in DOMAIN x.v THEN Ok(x.v[k]) ELSE Raise

(* The order in which Python iterates the keys of a JSON object is the     *)
(* order of the document; the documents of this model list their keys in   *)
(* the order of KeyOrder.                                                  *)
KeyOrder == <<"c1", "c2", "c3", "name", "other">>
RECURSIVE KeysOf(_, _)
KeysOf(f, i) ==
    IF i > Len(KeyOrder) THEN <<>>
    ELSE (IF KeyOrder[i] \in DOMAIN f THEN <<KeyOrder[i]>> ELSE <<>>) \o KeysOf(f, i + 1)

(* `for item in x`: the items of a list, the keys of a dict, the           *)
(* characters of a str (each a str again; a non-empty str of this model    *)
(* stands for its characters); TypeError for None and numbers.             *)
Iter(x) ==
    CASE x.t = "list" -> Ok(x.v)
      [] x.t = "obj" -> Ok([i \in 1..Len(KeysOf(x.v, 1)) |-> JStr(KeysOf(x.v, 1)[i])])
      [] x.t = "str" -> Ok(IF x.v = "" THEN <<>> ELSE <<JStr(x.v)>>)
      [] OTHER -> Raise

AllOk(q) == \A i \in 1..Len(q) : q[i].st = "ok"
Vals(q) == [i \in 1..Len(q) |-> q[i].val]

(* `[p.get("name", "") for p in x]` *)
NamesOf(x) ==
    LET it == Iter(x) IN
    IF it.st = "raise" THEN Raise
    ELSE LET ns == [i \in 1..Len(it.val) |-> Get(it.val[i], "name", JStr(""))] IN
         IF AllOk(ns) THEN Ok(JList(Vals(ns))) ELSE Raise

-----------------------------------------------------------------------------
(* extract_coursera_courses: the mapping of a parsed body to records *)

Endpoints == <<"catalogResults.v2", "courses.v1", "browse/courses">>

SummaryKeys == {"id", "name", "slug", "description", "partnerNames", "skills",
                "avgLearningHours", "rating"}

(* A faulty ElementRecord: an absent description leaves the key out. *)
ElementRecordNoDefault(e) ==
    IF e.t # "obj" THEN Raise
    ELSE LET ps == NamesOf(Get(e, "partners", JList(<<>>)).val)
             ss == NamesOf(Get(e, "skills", JList(<<>>)).val)
             rec == [id |-> Get(e, "id", JStr("")).val,
                     name |-> Get(e, "name", JStr("")).val,
                     slug |-> Get(e, "slug", JStr("")).val,
                     description |-> Get(e, "description", JStr("")).val,
                     partnerNames |-> ps.val,
                     skills |-> ss.val,
                     avgLearningHours |-> Get(e, "workload", JStr("")).val,
                     rating |-> Get(e, "rating", JStr("")).val]
         IN  IF ps.st = "raise" \/ ss.st = "raise" THEN Raise
             ELSE IF "description" \in DOMAIN e.v THEN Ok(rec)
             ELSE Ok(Without(rec, "description"))

(* The dict appended for one element of data["elements"]. *)
ElementRecord(e) ==
    IF e.t # "obj" THEN Raise
    ELSE LET ps == NamesOf(Get(e, "partners", JList(<<>>)).val)
             ss == NamesOf(Get(e, "skills", JList(<<>>)).val)
         IN  IF ps.st = "raise" \/ ss.st = "raise" THEN Raise
             ELSE Ok([id |-> Get(e, "id", JStr("")).val,
                      name |-> Get(e, "name", JStr("")).val,
                      slug |-> Get(e, "slug", JStr("")).val,
                      description |-> Get(e, "description", JStr("")).val,
                      partnerNames |-> ps.val,
                      skills |-> ss.val,
                      avgLearningHours |-> Get(e, "workload", JStr("")).val,
                      rating |-> Get(e, "rating", JStr("")).val])

(* A faulty LinkedRecord: skills read from "skills", not from "topicIds". *)
LinkedRecordSkillsKey(c) ==
    IF c.t # "obj" THEN Raise
    ELSE Ok([id |-> Get(c, "id", JStr("")).val,
             name |-> Get(c, "name", JStr("")).val,
             slug |-> Get(c, "slug", JStr("")).val,
             description |-> Get(c, "description", JStr("")).val,
             partnerNames |-> Get(c, "partnerNames", JList(<<>>)).val,
             skills |-> Get(c, "skills", JList(<<>>)).val,
             avgLearningHours |-> Get(c, "workload", JStr("")).val,
             rating |-> Get(c, "rating", JStr("")).val])

(* The dict appended for one entry of data["linked"]["courses.v1"]. *)
LinkedRecord(c) ==
    IF c.t # "obj" THEN Raise
    ELSE Ok([id |-> Get(c, "id", JStr("")).val,
             name |-> Get(c, "name", JStr("")).val,
             slug |-> Get(c, "slug", JStr("")).val,
             description |-> Get(c, "description", JStr("")).val,
             partnerNames |-> Get(c, "partnerNames", JList(<<>>)).val,
             skills |-> Get(c, "topicIds", JList(<<>>)).val,
             avgLearningHours |-> Get(c, "workload", JStr("")).val,
             rating |-> Get(c, "rating", JStr("")).val])

(* for element in data.get("elements", []): courses.append(...) *)
ElementsBranch(data) ==
    LET els == Get(data, "elements", JList(<<>>)) IN
    IF els.st = "raise" THEN Raise
    ELSE LET it == Iter(els.val) IN
         IF it.st = "raise" THEN Raise
         ELSE LET rs == [i \in 1..Len(it.val) |-> ElementRecord(it.val[i])] IN
              IF AllOk(rs) THEN Ok(Vals(rs)) ELSE Raise

(* for course in data["linked"]["courses.v1"]: courses.append(...) *)
LinkedBranch(data) ==
    LET l == Sub(data, "linked") IN
    IF l.st = "raise" THEN Raise
    ELSE LET cs == Sub(l.val, "courses.v1") IN
         IF cs.st = "raise" THEN Raise
         ELSE LET it == Iter(cs.val) IN
              IF it.st = "raise" THEN Raise
              ELSE LET rs == [i \in 1..Len(it.val) |-> LinkedRecord(it.val[i])] IN
                   IF AllOk(rs) THEN Ok(Vals(rs)) ELSE Raise

(* elif "linked" in data and "courses.v1" in data.get("linked", {}) *)
LinkedTest(data) ==
    LET a == In("linked", data) IN
    IF a.st = "raise" THEN Raise
    ELSE IF ~a.val THEN Ok(FALSE)
    ELSE LET l == Get(data, "linked", JObj(EmptyFn)) IN
         IF l.st = "raise" THEN Raise ELSE In("courses.v1", l.val)

(* The shape dispatch: which of the two branches fills courses. *)
ShapeOf(data) ==
    LET a == In("elements", data) IN
    IF a.st = "raise" THEN "raise"
    ELSE IF a.val THEN "elements"
    ELSE LET b == LinkedTest(data) IN
         IF b.st = "raise" THEN "raise"
         ELSE IF b.val THEN "linked" ELSE "none"

(* From `courses = []` to `if courses:`; when no course was found the code  *)
(* prints list(data.keys()), an AttributeError unless data is a dict.       *)
Parse(data) ==
    LET sh == ShapeOf(data)
        cs == CASE sh = "elements" -> ElementsBranch(data)
                [] sh = "linked" -> LinkedBranch(data)
                [] sh = "none" -> Ok(<<>>)
                [] OTHER -> Raise
    IN  IF cs.st = "raise" THEN Raise
        ELSE IF cs.val = <<>> /\ data.t # "obj" THEN Raise
        ELSE cs

(* The HTML fallback's mapping of initial_data["browse"]["courses"]; every  *)
(* exception in it is caught by `except Exception` and leaves no course.    *)
BrowseRecord(course_id, d) ==
    IF d.t # "obj" THEN Raise
    ELSE LET ps == NamesOf(Get(d, "partners", JList(<<>>)).val) IN
         IF ps.st = "raise" THEN Raise
         ELSE Ok([id |-> course_id,
                  name |-> Get(d, "name", JStr("")).val,
                  slug |-> Get(d, "slug", JStr("")).val,
                  description |-> Get(d, "description", JStr("")).val,
                  partnerNames |-> ps.val,
                  skills |-> Get(d, "skills", JList(<<>>)).val,
                  avgLearningHours |-> Get(d, "workload", JStr("")).val,
                  rating |-> Get(d, "rating", JStr("")).val])

FallbackParse(d) ==
    LET a == In("browse", d) IN
    IF a.st = "raise" THEN Raise
    ELSE IF ~a.val THEN Ok(<<>>)
    ELSE LET br == Sub(d, "browse") IN
         IF br.st = "raise" THEN Raise
         ELSE LET b == In("courses", br.val) IN
              IF b.st = "raise" THEN Raise
              ELSE IF ~b.val THEN Ok(<<>>)
              ELSE LET raw == Sub(br.val, "courses") IN
                   IF raw.st = "raise" \/ raw.val.t # "obj" THEN Raise
                   ELSE LET ks == KeysOf(raw.val.v, 1)
                            rs == [i \in 1..Len(ks) |-> BrowseRecord(JStr(ks[i]), raw.val.v[ks[i]])]
                        IN  IF AllOk(rs) THEN Ok(Vals(rs)) ELSE Raise

-----------------------------------------------------------------------------
(* What the remote can answer *)

OkStatus == 200
FailCodes == {404, 503}
NotJson == [t |-> "text"]       \* a body json cannot decode

NetErr == [kind |-> "neterr"]   \* requests.exceptions.RequestException
Http(code, b) == [kind |-> "http", status |-> code, body |-> b]

SeqsUpTo(S, n) == UNION {[1..k -> S] : k \in 0..n}

FullElem ==
    [id |-> JStr("c1"), name |-> JStr("N1"), slug |-> JStr("s1"),
     description |-> JStr("D1"),
     partners |-> JList(<<JObj([name |-> JStr("P1")]), JObj(EmptyFn)>>),
     skills |-> JList(<<JObj([name |-> JStr("S1")])>>),
     workload |-> JStr("10h"), rating |-> JNum(4)]

(* Elements whose fields are absent or of the type the code expects. *)
WellFormedElems ==
    {JObj(FullElem), JObj(EmptyFn), JObj([FullElem EXCEPT !.name = JNull]),
     JObj(Restrict(FullElem, {"name", "slug", "partners", "skills"})),
     JObj(Restrict(FullElem, {"id", "description", "workload", "rating"})),
     JObj(Restrict(FullElem, {"id", "name", "slug", "skills"}))}

(* Elements that are no object, or whose nested fields are null or of the  *)
(* wrong type.                                                             *)
IllFormedElems ==
    {JNull, JStr("x"),
     JObj([FullElem EXCEPT !.partners = JNull]),
     JObj([FullElem EXCEPT !.skills = JNum(1)]),
     JObj([FullElem EXCEPT !.partners = JList(<<JNull>>)])}

FullEntry ==
    [id |-> JStr("c2"), name |-> JStr("N2"), slug |-> JStr("s2"),
     description |-> JStr("D2"), partnerNames |-> JList(<<JStr("P2")>>),
     topicIds |-> JList(<<JStr("t1"), JStr("t2")>>),
     workload |-> JStr("20h"), rating |-> JNum(5)]

WellFormedEntries ==
    {JObj(FullEntry), JObj(EmptyFn), JObj(Without(FullEntry, "topicIds")),
     JObj(Restrict(FullEntry, {"topicIds", "partnerNames"}))}

IllFormedEntries == {JNull, JStr("x")}

LinkedOf(q) == JObj("courses.v1" :> JList(q))

ElementsBodies ==
    {JObj([elements |-> JList(q)]) :
        q \in SeqsUpTo(WellFormedElems, MaxElems) \cup {<<e>> : e \in IllFormedElems}}

LinkedBodies ==
    {JObj([linked |-> LinkedOf(q)]) :
        q \in SeqsUpTo(WellFormedEntries, MaxElems) \cup {<<e>> : e \in IllFormedEntries}}

(* Bodies that have both keys, as the answers of courses.v1 do. *)
BothBodies ==
    {JObj([elements |-> JList(q), linked |-> LinkedOf(<<JObj(FullEntry)>>)]) :
        q \in {<<>>, <<JObj(FullElem)>>}}

(* Every other JSON value: objects of another shape, and values that are   *)
(* no object.                                                              *)
OtherBodies ==
    {JObj(EmptyFn), JObj([other |-> JNum(1)]),
     JObj([linked |-> JObj(EmptyFn)]), JObj([linked |-> JNull]),
     JObj([linked |-> JObj("courses.v1" :> JNull)]),
     JObj([elements |-> JNull]), JObj([elements |-> JStr("")]),
     JList(<<>>), JList(<<JStr("elements")>>), JList(<<JStr("linked")>>),
     JNull, JNum(1), JStr(""), JStr("elements")}

Bodies == ElementsBodies \cup LinkedBodies \cup BothBodies \cup OtherBodies

Responses ==
    {NetErr} \cup {Http(c, NotJson) : c \in FailCodes}
    \cup {Http(OkStatus, b) : b \in {NotJson} \cup Bodies}

(* The browse page: no script tag, a script tag json cannot decode, or a   *)
(* script tag holding a JSON value.                                        *)
BrowseCourse == [name |-> JStr("N3"), slug |-> JStr("s3"),
                 partners |-> JList(<<JObj([name |-> JStr("P3")])>>)]
BrowseMaps ==
    {EmptyFn, "c1" :> JObj(BrowseCourse), "c1" :> JObj(EmptyFn),
     ("c1" :> JObj(BrowseCourse)) @@ ("c2" :> JObj(EmptyFn)),
     "c1" :> JNull, "c1" :> JObj([partners |-> JNull])}
InitialStates ==
    {JObj([browse |-> JObj([courses |-> JObj(m)])]) : m \in BrowseMaps}
    \cup {JObj(EmptyFn), JObj([browse |-> JObj(EmptyFn)]), JObj([browse |-> JNull]),
          JObj([browse |-> JObj([courses |-> JList(<<>>)])]), JNull, JList(<<>>)}
NoMatch == [t |-> "nomatch"]
HtmlResponses ==
    {NetErr} \cup {Http(c, NoMatch) : c \in FailCodes}
    \cup {Http(OkStatus, b) : b \in {NoMatch, NotJson} \cup InitialStates}

-----------------------------------------------------------------------------
(* extract_coursera_courses: the retry/fallback cascade *)

RECURSIVE Pow2(_)
Pow2(n) == IF n = 0 THEN 1 ELSE 2 * Pow2(n - 1)

(* A request to an endpoint carries the limit argument as the query        *)
(* parameter "limit"; the request for the browse page carries none.        *)
GetEvent(e, a) == [op |-> "get", endpoint |-> e, attempt |-> a, limit |-> limit]
SleepEvent(a) == [op |-> "sleep", secs |-> Pow2(a)]
HtmlEvent == [op |-> "html"]

(* Parse, tabulated over the bodies the remote can send. *)
Parsed == [b \in Bodies |-> Parse(b)]

(* A faulty Outcome: `if courses: return courses` is missing, so an answer *)
(* with courses is handled by the no-course branch.                        *)
OutcomeWithoutReturn(r) ==
    IF r.kind = "neterr" THEN "neterr"
    ELSE IF r.status # OkStatus THEN "status"
    ELSE IF r.body = NotJson THEN "badjson"
    ELSE IF Parsed[r.body].st = "raise" THEN "raise" ELSE "nocourses"

(* What one attempt comes to: "neterr", "status", "badjson" (the three     *)
(* handled failures), "nocourses", "courses" or "raise".                   *)
Outcome(r) ==
    IF r.kind = "neterr" THEN "neterr"
    ELSE IF r.status # OkStatus THEN "status"
    ELSE IF r.body = NotJson THEN "badjson"
    ELSE LET p == Parsed[r.body] IN
         IF p.st = "raise" THEN "raise"
         ELSE IF p.val # <<>> THEN "courses" ELSE "nocourses"

(* A faulty Backoff: sleeps after the last attempt of an endpoint too. *)
BackoffAfterLast(a) == IF a < max_retries THEN <<SleepEvent(a)>> ELSE <<>>

(* `if attempt < max_retries - 1: time.sleep(2 ** attempt)` *)
Backoff(a) == IF a < max_retries - 1 THEN <<SleepEvent(a)>> ELSE <<>>

CatalogInit ==
    /\ max_retries \in 0..MaxRetries
    /\ limit \in 1..MaxLimit
    /\ pc = IF max_retries > 0 THEN "attempt" ELSE "fallback"
    /\ endpoint = 1
    /\ attempt = 0
    /\ log = <<>>
    /\ seen = {}
    /\ resp = [kind |-> "none"]
    /\ courses = <<>>
    /\ result = <<>>

CatalogOff ==
    /\ max_retries = 0
    /\ limit = 1
    /\ pc = "off"
    /\ endpoint = 1
    /\ attempt = 0
    /\ log = <<>>
    /\ seen = {}
    /\ resp = [kind |-> "none"]
    /\ courses = <<>>
    /\ result = <<>>

(* A faulty handler of a network exception: it retries without a sleep. *)
BackoffRequestExceptionNoSleep(a) == <<>>

(* The handler of a network exception: the same backoff, written out again. *)
BackoffRequestException(a) == IF a < max_retries - 1 THEN <<SleepEvent(a)>> ELSE <<>>

(* The handler of a JSON parse exception. *)
BackoffJSONDecodeError(a) == IF a < max_retries - 1 THEN <<SleepEvent(a)>> ELSE <<>>

(* The branch of a 200 answer that held no course. *)
BackoffNoCourses(a) == IF a < max_retries - 1 THEN <<SleepEvent(a)>> ELSE <<>>

(* The sleeps an attempt ends with, by the branch that handles outcome o. *)
SleepsAfter(o, a) ==
    CASE o = "status" -> Backoff(a)
      [] o = "neterr" -> BackoffRequestException(a)
      [] o = "badjson" -> BackoffJSONDecodeError(a)
      [] o = "nocourses" -> BackoffNoCourses(a)

(* A faulty Breaks: the two branches leave the attempt loop on their first *)
(* failure, as if `continue` were `break`.                                 *)
BreaksAtOnce(o, a) == o \in {"status", "nocourses"}

(* `else: break`: the non-200 branch and the no-course branch leave the    *)
(* attempt loop by break on the last attempt; the two exception handlers   *)
(* have no break and let the loop run out.                                 *)
Breaks(o, a) == o \in {"status", "nocourses"} /\ ~(a < max_retries - 1)

(* The answers the remote can give to one attempt, each with what the      *)
(* attempt comes to and the list courses it builds.                        *)
Steps ==
    { [r |-> r, o |-> Outcome(r),
       cs |-> IF Outcome(r) \in {"courses", "nocourses"} THEN Parsed[r.body].val ELSE <<>>] :
      r \in Responses }

(* One iteration of `for attempt in range(max_retries)` for one endpoint:  *)
(* the request, the handling of its answer and the backoff sleep.          *)
Attempt ==
    /\ pc = "attempt"
    /\ \E s \in Steps :
        /\ resp' = s.r
        /\ courses' = IF s.o \in {"courses", "nocourses"} THEN s.cs ELSE courses
        /\ IF s.o = "courses"
           THEN /\ pc' = "returned"
                /\ result' = s.cs
                /\ log' = Append(log, GetEvent(endpoint, attempt))
                /\ UNCHANGED <<endpoint, attempt, seen>>
           ELSE IF s.o = "raise"
           THEN /\ pc' = "raised"
                /\ log' = Append(log, GetEvent(endpoint, attempt))
                /\ UNCHANGED <<endpoint, attempt, seen, result>>
           ELSE /\ seen' = seen \cup {s.o}
                /\ log' = Append(log, GetEvent(endpoint, attempt)) \o SleepsAfter(s.o, attempt)
                /\ IF ~Breaks(s.o, attempt) /\ attempt + 1 < max_retries
                   THEN /\ attempt' = attempt + 1
                        /\ UNCHANGED <<endpoint, pc>>
                   ELSE IF endpoint < Len(Endpoints)
                   THEN /\ endpoint' = endpoint + 1
                        /\ attempt' = 0
                        /\ UNCHANGED pc
                   ELSE /\ pc' = "fallback"
                        /\ UNCHANGED <<endpoint, attempt>>
                /\ UNCHANGED result
    /\ UNCHANGED <<max_retries, limit, detailVars, storageVars, csvVars>>

(* What the HTML fallback finds in an answer; an exception anywhere in it  *)
(* is caught and leaves nothing.                                           *)
FallbackCourses(h) ==
    IF h.kind = "neterr" THEN <<>>
    ELSE IF h.status # OkStatus THEN <<>>
    ELSE IF h.body \in {NoMatch, NotJson} THEN <<>>
    ELSE LET p == FallbackParse(h.body) IN
         IF p.st = "raise" THEN <<>> ELSE p.val

(* The HTML fallback, reached when the endpoint loops end without a return. *)
Fallback ==
    /\ pc = "fallback"
    /\ \E h \in HtmlResponses :
        /\ resp' = h
        /\ log' = Append(log, HtmlEvent)
        /\ courses' = FallbackCourses(h)
        /\ result' = FallbackCourses(h)
        /\ pc' = "returned"
    /\ UNCHANGED <<max_retries, limit, endpoint, attempt, seen, detailVars, storageVars, csvVars>>

-----------------------------------------------------------------------------
(* extract_basic_info.  Text is a sequence of characters here, so that     *)
(* slicing and joining are computed as Python computes them.               *)

DescLimit == 100    \* metadata["description"][:100]
SkillLimit == 5     \* metadata["skills"][:5]
MaxExtra == 3       \* descriptions have up to DescLimit + MaxExtra characters
MaxSkills == 7      \* skills lists have up to MaxSkills entries

Ellipsis == <<".", ".", ".">>
NotAvailable == JStr(<<"N", "/", "A">>)

Take(q, n) == SubSeq(q, 1, IF n < Len(q) THEN n ELSE Len(q))

(* Python truthiness of a JSON value. *)
Truthy(x) ==
    CASE x.t = "null" -> FALSE
      [] x.t = "str" -> x.v # <<>>
      [] x.t = "list" -> x.v # <<>>
      [] x.t = "num" -> x.v # 0
      [] x.t = "obj" -> DOMAIN x.v # {}

(* x[k1][k2]...: the first subscript that fails raises. *)
RECURSIVE Path(_, _)
Path(x, ks) ==
    IF ks = <<>> THEN Ok(x)
    ELSE LET s == Sub(x, Head(ks)) IN
         IF s.st = "raise" THEN Raise ELSE Path(s.val, Tail(ks))

(* `for p in x` over a list, the characters of a str or the keys of a dict *)
(* (a key is a str; which one does not matter to a caller that subscripts  *)
(* it with a string).                                                      *)
Items(x) ==
    CASE x.t = "list" -> Ok(x.v)
      [] x.t = "str" -> Ok([i \in 1..Len(x.v) |-> JStr(<<x.v[i]>>)])
      [] x.t = "obj" -> Ok([i \in 1..Cardinality(DOMAIN x.v) |-> JStr(<<"k">>)])
      [] OTHER -> Raise

(* `[p[key] for p in x]` *)
Pluck(x, key) ==
    LET it == Items(x) IN
    IF it.st = "raise" THEN Raise
    ELSE LET vs == [i \in 1..Len(it.val) |-> Sub(it.val[i], key)] IN
         IF AllOk(vs) THEN Ok(JList(Vals(vs))) ELSE Raise

(* `", ".join(q)` for a Python list q: TypeError unless every item is a str. *)
RECURSIVE JoinChars(_)
JoinChars(q) ==
    IF q = <<>> THEN <<>>
    ELSE IF Len(q) = 1 THEN q[1].v
    ELSE q[1].v \o <<",", " ">> \o JoinChars(Tail(q))
Join(q) ==
    IF \A i \in 1..Len(q) : q[i].t = "str" THEN Ok(JStr(JoinChars(q))) ELSE Raise

(* metadata["description"][:100] + "..." if metadata["description"] else "N/A" *)
DescriptionOf(d) ==
    IF ~Truthy(d) THEN Ok(NotAvailable)
    ELSE IF d.t = "str" THEN Ok(JStr(Take(d.v, DescLimit) \o Ellipsis))
    ELSE Raise

(* ", ".join(skills[:5]) + "..." if len(skills) > 5 else ", ".join(skills); *)
(* skills is a list or a str in this model (None and numbers have no len).  *)
SkillsOf(sk) ==
    LET it == IF sk.t \in {"list", "str"} THEN Items(sk) ELSE Raise IN
    IF it.st = "raise" THEN Raise
    ELSE IF Len(it.val) > SkillLimit
         THEN LET j == Join(Take(it.val, SkillLimit)) IN
              IF j.st = "raise" THEN Raise ELSE Ok(JStr(j.val.v \o Ellipsis))
         ELSE Join(it.val)

(* A faulty RatingOf: subscripts metadata["ratings"] without the test. *)
RatingOfUnguarded(metadata, key) == Path(metadata, <<"ratings", key>>)

(* metadata["ratings"][key] if "ratings" in metadata else "N/A" *)
RatingOf(metadata, key) ==
    IF "ratings" \in DOMAIN metadata.v
    THEN Path(metadata, <<"ratings", key>>)
    ELSE Ok(NotAvailable)

InfoKeys == {"name", "description", "level", "workload", "skills", "partners",
             "instructors", "rating", "ratingCount"}

(* The dict literal `info = {...}`: any failing entry raises. *)
InfoOf(metadata) ==
    LET entries ==
            [name |-> Sub(metadata, "name"),
             description |-> LET d == Sub(metadata, "description") IN
                             IF d.st = "raise" THEN Raise ELSE DescriptionOf(d.val),
             level |-> Sub(metadata, "level"),
             workload |-> Sub(metadata, "workload"),
             skills |-> LET sk == Sub(metadata, "skills") IN
                        IF sk.st = "raise" THEN Raise ELSE SkillsOf(sk.val),
             partners |-> LET ps == Sub(metadata, "partners") IN
                          IF ps.st = "raise" THEN Raise ELSE Pluck(ps.val, "name"),
             instructors |-> LET is == Sub(metadata, "instructors") IN
                             IF is.st = "raise" THEN Raise ELSE Pluck(is.val, "fullName"),
             rating |-> IF metadata.t = "obj"
                        THEN RatingOf(metadata, "averageFiveStarRating") ELSE Raise,
             ratingCount |-> IF metadata.t = "obj"
                             THEN RatingOf(metadata, "ratingCount") ELSE Raise]
    IN  IF \A k \in DOMAIN entries : entries[k].st = "ok"
        THEN Ok(JObj([k \in DOMAIN entries |-> entries[k].val]))
        ELSE Raise

(* The body of the try block: the returned value, or an exception. *)
ExtractBody(rd) ==
    LET els == Path(rd, <<"data", "XdpV1Resource", "slug", "elements">>) IN
    IF els.st = "raise" THEN Raise
    ELSE IF ~Truthy(els.val) THEN Ok(JNull)
    ELSE LET it == Items(els.val) IN
         IF it.st = "raise" \/ els.val.t # "list" THEN Raise
         ELSE LET metadata == Path(it.val[1], <<"xdpMetadata", "cdpMetadata">>) IN
              IF metadata.st = "raise" THEN Raise ELSE InfoOf(metadata.val)

(* A faulty extract_basic_info: no except clause around the body. *)
extract_basic_info_uncaught(rd) == ExtractBody(rd)

(* try: ... except Exception: return None *)
extract_basic_info(rd) ==
    LET b == ExtractBody(rd) IN
    IF b.st = "raise" THEN Ok(JNull) ELSE b

(* The raw responses extract_basic_info is given. *)
DescText(n) ==
    JStr([i \in 1..n |-> IF i > DescLimit THEN "b" ELSE IF i % 2 = 0 THEN "a" ELSE "c"])

SkillList(n) == JList([i \in 1..n |-> JStr(<<"s">>)])

FullRatings == [averageFiveStarRating |-> JNum(4), ratingCount |-> JNum(10)]

FullMeta(d, n) ==
    [name |-> JStr(<<"M">>), description |-> d, level |-> JStr(<<"L">>),
     workload |-> JStr(<<"W">>), skills |-> SkillList(n),
     partners |-> JList(<<JObj([name |-> JStr(<<"P">>)])>>),
     instructors |-> JList(<<JObj([fullName |-> JStr(<<"I">>)])>>),
     ratings |-> JObj(FullRatings)]

ElementOf(meta) == JObj([xdpMetadata |-> JObj([cdpMetadata |-> meta])])
WrapElements(els) ==
    JObj([data |-> JObj([XdpV1Resource |-> JObj([slug |-> JObj([elements |-> els])])])])
Wrap(meta) == WrapElements(JList(<<ElementOf(meta)>>))

(* Complete responses, with and without the ratings key. *)
CompleteInputs ==
    {Wrap(JObj(FullMeta(DescText(n), 2))) : n \in 0..(DescLimit + MaxExtra)}
    \cup {Wrap(JObj(Without(FullMeta(DescText(n), 2), "ratings"))) : n \in 0..(DescLimit + MaxExtra)}
    \cup {Wrap(JObj(FullMeta(DescText(3), n))) : n \in 0..MaxSkills}
    \cup {Wrap(JObj(FullMeta(JNull, 2)))}

(* Responses in which one expected key is absent or null. *)
BrokenInputs ==
    {JNull, JObj(EmptyFn), JObj([data |-> JObj(EmptyFn)]), JObj([data |-> JNull]),
     JObj([data |-> JObj([XdpV1Resource |-> JObj(EmptyFn)])]),
     JObj([data |-> JObj([XdpV1Resource |-> JObj([slug |-> JObj(EmptyFn)])])]),
     WrapElements(JList(<<>>)), WrapElements(JNull), WrapElements(JStr(<<"x">>)),
     WrapElements(JList(<<JObj(EmptyFn)>>)),
     WrapElements(JList(<<JObj([xdpMetadata |-> JObj(EmptyFn)])>>)),
     WrapElements(JList(<<JNull>>)),
     Wrap(JNull)}
    \cup {Wrap(JObj(Without(FullMeta(DescText(n), 2), k))) :
            k \in DOMAIN FullMeta(JNull, 0) \ {"ratings"}, n \in {3, DescLimit + 1}}
    \cup {Wrap(JObj([FullMeta(DescText(3), 2) EXCEPT ![k] = JNull])) :
            k \in {"skills", "partners", "instructors", "ratings"}}
    \cup {Wrap(JObj([FullMeta(DescText(3), 2) EXCEPT !.ratings = JObj(Without(FullRatings, k))])) :
            k \in DOMAIN FullRatings}
    \cup {Wrap(JObj([FullMeta(DescText(3), 2) EXCEPT !.partners = JList(<<JObj(EmptyFn)>>)])),
          Wrap(JObj([FullMeta(DescText(3), 2) EXCEPT !.instructors = JList(<<JObj(EmptyFn)>>)])),
          Wrap(JObj([FullMeta(DescText(3), 2) EXCEPT !.skills = JList(<<JNum(1)>>)])),
          Wrap(JObj([FullMeta(DescText(3), 2) EXCEPT !.description = JNum(7)]))}

DetailInputs == CompleteInputs \cup BrokenInputs

DetailInit ==
    /\ response_data \in DetailInputs
    /\ info = JNull
    /\ dpc = "call"

DetailOff ==
    /\ response_data = JNull
    /\ info = JNull
    /\ dpc = "off"

(* One call of extract_basic_info. *)
ExtractBasicInfo ==
    /\ dpc = "call"
    /\ LET r == extract_basic_info(response_data) IN
       IF r.st = "raise"
       THEN dpc' = "raised" /\ info' = info
       ELSE dpc' = "returned" /\ info' = r.val
    /\ UNCHANGED <<response_data, catalogVars, storageVars, csvVars>>

-----------------------------------------------------------------------------
(* upload_to_gcs and ensure_bucket_exists against one bucket of the        *)
(* storage service.  A request to the service either takes effect or       *)
(* raises and changes nothing.                                             *)

MaxBindings == 2    \* bindings of the policy before the first call

Users == {"ann@x", "bob@x"}
NoUser == ""                                \* user_email=None
Member(u) == <<"user", u>>                  \* f"user:{user_email}"
ViewerRole == "roles/storage.objectViewer"
Roles == {ViewerRole, "roles/storage.admin"}

Bindings ==
    {[role |-> ViewerRole, members |-> {Member("ann@x")}],
     [role |-> ViewerRole, members |-> {Member("ann@x"), Member("bob@x")}],
     [role |-> ViewerRole, members |-> {<<"group", "ann@x">>}],
     [role |-> "roles/storage.admin", members |-> {Member("bob@x")}]}
Policies == SeqsUpTo(Bindings, MaxBindings)

(* A faulty HasAccess: the role is misspelt, so no binding ever matches. *)
HasAccessWrongRole(pol, u) ==
    \E i \in 1..Len(pol) :
        pol[i].role = "roles/storage.objectviewer" /\ Member(u) \in pol[i].members

(* The loop over policy.bindings that sets user_has_access. *)
HasAccess(pol, u) ==
    \E i \in 1..Len(pol) : pol[i].role = ViewerRole /\ Member(u) \in pol[i].members

(* The binding ensure_bucket_exists appends. *)
ViewerBinding(u) == [role |-> ViewerRole, members |-> {Member(u)}]

(* A faulty ImportFails: the import is taken to succeed always. *)
ImportNeverFails == FALSE

(* `from google.cloud import storage` raises ImportError. *)
ImportFails == ~libAvailable

(* The requests ensure_bucket_exists(bucket, user_email=u) makes when none *)
(* of them raises, in order.                                               *)
EnsurePlan(u) ==
    <<"client", "exists">>
    \o (IF bucketExists THEN <<>> ELSE <<"create_bucket">>)
    \o (IF u = NoUser THEN <<>>
        ELSE <<"get_iam_policy">>
             \o (IF HasAccess(policy, u) THEN <<>> ELSE <<"set_iam_policy">>))

(* The requests upload_to_gcs makes when none of them raises. *)
UploadPlan(make_public) ==
    <<"client", "upload">> \o (IF make_public THEN <<"make_public">> ELSE <<>>)

(* The requests made before the one that raises, f. *)
RECURSIVE Before(_, _)
Before(plan, f) ==
    IF plan = <<>> \/ Head(plan) = f THEN <<>>
    ELSE <<Head(plan)>> \o Before(Tail(plan), f)

Range(q) == {q[i] : i \in 1..Len(q)}

EnsureFailures == {"none", "client", "exists", "create_bucket", "get_iam_policy", "set_iam_policy"}
UploadFailures == {"none", "client", "upload", "make_public"}

StorageInit ==
    /\ libAvailable \in BOOLEAN
    /\ bucketExists \in BOOLEAN
    /\ policy \in IF bucketExists THEN Policies ELSE {<<>>}
    /\ blobs = {}
    /\ storage0 = [exists |-> bucketExists, policy |-> policy]
    /\ ops = {}
    /\ granted = [u \in Users |-> 0]
    /\ succeeded = {}
    /\ called = {}
    /\ last = [fn |-> "none", user |-> NoUser, ret |-> "", ops |-> <<>>,
               changed |-> FALSE, repeated |-> FALSE]

StorageOff ==
    /\ libAvailable = FALSE
    /\ bucketExists = FALSE
    /\ policy = <<>>
    /\ blobs = {}
    /\ storage0 = [exists |-> FALSE, policy |-> <<>>]
    /\ ops = {}
    /\ granted = [u \in Users |-> 0]
    /\ succeeded = {}
    /\ called = {}
    /\ last = [fn |-> "off", user |-> NoUser, ret |-> "", ops |-> <<>>,
               changed |-> FALSE, repeated |-> FALSE]

(* One call ensure_bucket_exists(bucket, user_email=u); f is the request   *)
(* that raises, if any.                                                    *)
EnsureBucketExists ==
    \E u \in Users \cup {NoUser}, f \in EnsureFailures :
        /\ last.fn # "off"
        /\ LET plan == IF ImportFails THEN <<>> ELSE EnsurePlan(u)
               made == Before(plan, f)
               ret == IF ImportFails \/ f \in Range(plan) THEN "False" ELSE "True"
               sets == "set_iam_policy" \in Range(made)
           IN  /\ bucketExists' = (bucketExists \/ "create_bucket" \in Range(made))
               /\ policy' = IF sets THEN Append(policy, ViewerBinding(u)) ELSE policy
               /\ granted' = IF sets THEN [granted EXCEPT ![u] = @ + 1] ELSE granted
               /\ ops' = ops \cup Range(made)
               /\ succeeded' = IF ret = "True" /\ u # NoUser THEN succeeded \cup {u} ELSE succeeded
               /\ called' = called \cup {"ensure_bucket_exists"}
               /\ last' = [fn |-> "ensure_bucket_exists", user |-> u, ret |-> ret, ops |-> made,
                           changed |-> sets, repeated |-> u \in succeeded]
               /\ UNCHANGED <<libAvailable, blobs, storage0>>
               /\ UNCHANGED <<catalogVars, detailVars, csvVars>>

(* One call upload_to_gcs(path, bucket, make_public=mp); the upload raises *)
(* when the bucket does not exist.                                         *)
UploadToGcs ==
    \E mp \in BOOLEAN, name \in {"courses.csv"}, f0 \in UploadFailures :
        /\ last.fn # "off"
        /\ LET f == IF f0 = "none" /\ ~bucketExists THEN "upload" ELSE f0
               plan == IF ImportFails THEN <<>> ELSE UploadPlan(mp)
               made == Before(plan, f)
               ret == IF ImportFails \/ f \in Range(plan) THEN "None" ELSE "dict"
           IN  /\ blobs' = IF "upload" \in Range(made)
                           THEN {b \in blobs : b.name # name}
                                \cup {[name |-> name, public |-> "make_public" \in Range(made)]}
                           ELSE blobs
               /\ ops' = ops \cup Range(made)
               /\ called' = called \cup {"upload_to_gcs"}
               /\ last' = [fn |-> "upload_to_gcs", user |-> NoUser, ret |-> ret, ops |-> made,
                           changed |-> FALSE, repeated |-> FALSE]
               /\ UNCHANGED <<libAvailable, bucketExists, policy, storage0, granted, succeeded>>
               /\ UNCHANGED <<catalogVars, detailVars, csvVars>>

-----------------------------------------------------------------------------
(* convert_to_csv: the rows built for the data frame.  Text is a sequence  *)
(* of characters.                                                          *)

MaxText == 2        \* longest name or description
MaxCourses == 2     \* longest list of courses

Chars == {"a", "\n", "\r"}
Texts == SeqsUpTo(Chars, MaxText)

(* str.replace(from, to) for a one-character from and to. *)
Replace(q, from, to) == [i \in 1..Len(q) |-> IF q[i] = from THEN to ELSE q[i]]

(* course.get("description", "").replace("\n", " ").replace("\r", " ");  *)
(* AttributeError when the description is not a str.                       *)
CleanDescription(course) ==
    LET d == Get(course, "description", JStr(<<>>)) IN
    IF d.st = "raise" \/ d.val.t # "str" THEN Raise
    ELSE Ok(JStr(Replace(Replace(d.val.v, "\n", " "), "\r", " ")))

(* ", ".join(course.get(key, [])) *)
JoinField(course, key) ==
    LET l == Get(course, key, JList(<<>>)) IN
    IF l.st = "raise" THEN Raise
    ELSE LET it == Items(l.val) IN
         IF it.st = "raise" THEN Raise ELSE Join(it.val)

(* The dict course_data built for one course. *)
CourseData(course) ==
    LET d == CleanDescription(course)
        ps == JoinField(course, "partnerNames")
        ss == JoinField(course, "skills")
    IN  IF course.t # "obj" \/ d.st = "raise" \/ ps.st = "raise" \/ ss.st = "raise"
        THEN Raise
        ELSE Ok([id |-> Get(course, "id", JStr(<<>>)).val,
                 name |-> Get(course, "name", JStr(<<>>)).val,
                 slug |-> Get(course, "slug", JStr(<<>>)).val,
                 description |-> d.val,
                 learning_hours |-> Get(course, "avgLearningHours", JStr(<<>>)).val,
                 partners |-> ps.val,
                 skills |-> ss.val,
                 rating |-> Get(course, "rating", JStr(<<>>)).val])

FullCourse(n, d) ==
    [id |-> JStr(<<"c">>), name |-> JStr(n), slug |-> JStr(<<"s">>), description |-> d,
     partnerNames |-> JList(<<JStr(<<"P">>), JStr(<<"Q">>)>>),
     skills |-> JList(<<JStr(<<"k">>)>>),
     avgLearningHours |-> JStr(<<"9">>), rating |-> JNum(4)]

CsvCourses ==
    {JObj(FullCourse(n, JStr(d))) : n \in Texts, d \in Texts}
    \cup {JObj(Without(FullCourse(n, JNull), "description")) : n \in Texts}
    \cup {JObj(FullCourse(n, JNull)) : n \in Texts}

CsvInit ==
    /\ csvIn \in SeqsUpTo(CsvCourses, MaxCourses)
    /\ rows = <<>>
    /\ csvRet = "pending"
    /\ cpc = "call"

CsvOff ==
    /\ csvIn = <<>>
    /\ rows = <<>>
    /\ csvRet = "pending"
    /\ cpc = "off"

(* One call of convert_to_csv. *)
ConvertToCsv ==
    /\ cpc = "call"
    /\ cpc' = "done"
    /\ LET rs == [i \in 1..Len(csvIn) |-> CourseData(csvIn[i])] IN
       IF csvIn = <<>>
       THEN csvRet' = "None" /\ rows' = <<>>
       ELSE IF AllOk(rs)
       THEN csvRet' = "path" /\ rows' = Vals(rs)
       ELSE csvRet' = "raised" /\ rows' = <<>>
    /\ UNCHANGED <<csvIn, catalogVars, detailVars, storageVars>>

-----------------------------------------------------------------------------
(* The specifications: one per function, the others at rest. *)

InitCatalog == CatalogInit /\ DetailOff /\ StorageOff /\ CsvOff
NextCatalog == Attempt \/ Fallback
SpecCatalog == InitCatalog /\ [][NextCatalog]_vars

InitDetails == CatalogOff /\ DetailInit /\ StorageOff /\ CsvOff
NextDetails == ExtractBasicInfo
SpecDetails == InitDetails /\ [][NextDetails]_vars

InitStorage == CatalogOff /\ DetailOff /\ StorageInit /\ CsvOff
NextStorage == EnsureBucketExists \/ UploadToGcs
SpecStorage == InitStorage /\ [][NextStorage]_vars

InitCsv == CatalogOff /\ DetailOff /\ StorageOff /\ CsvInit
NextCsv == ConvertToCsv
SpecCsv == InitCsv /\ [][NextCsv]_vars

Init == InitCatalog \/ InitDetails \/ InitStorage \/ InitCsv
Next == NextCatalog \/ NextDetails \/ NextStorage \/ NextCsv
Spec == Init /\ [][Next]_vars

-----------------------------------------------------------------------------
(* Properties of extract_coursera_courses, under SpecCatalog *)

IsPrefix(p, q) == Len(p) <= Len(q) /\ SubSeq(q, 1, Len(p)) = p

(* The requests and sleeps of a run in which no attempt yields a course:   *)
(* m attempts per endpoint, a sleep of 2^a seconds after attempt a unless  *)
(* it is the last one, the endpoints in order, then the HTML request.      *)
RECURSIVE AttemptsFrom(_, _, _)
AttemptsFrom(e, a, m) ==
    IF a >= m THEN <<>>
    ELSE <<GetEvent(e, a)>>
         \o (IF a + 1 < m THEN <<SleepEvent(a)>> ELSE <<>>)
         \o AttemptsFrom(e, a + 1, m)
RECURSIVE EndpointsFrom(_, _)
EndpointsFrom(e, m) ==
    IF e > Len(Endpoints) THEN <<>>
    ELSE AttemptsFrom(e, 0, m) \o EndpointsFrom(e + 1, m)
ExhaustedLog(m) == EndpointsFrom(1, m) \o <<HtmlEvent>>

Non200(r) == r.kind = "http" /\ r.status # OkStatus

(* The last response came from an API endpoint, with status 200 and a      *)
(* JSON object as its body.                                                *)
LastIsApiObject ==
    /\ log # <<>>
    /\ log[Len(log)].op # "html"
    /\ resp.kind = "http"
    /\ resp.status = OkStatus
    /\ resp.body.t = "obj"

(* C1: when every GET so far returned a non-200 status, the requests and   *)
(* sleeps so far are the start of: max_retries attempts per endpoint, in   *)
(* endpoint order, with a sleep of 2^attempt seconds between the attempts  *)
(* of one endpoint, then the HTML request; and once the call has returned, *)
(* they are all of it and the result is the empty list.                    *)
C1_AllNon200 ==
    (seen \subseteq {"status"} /\ (resp.kind = "none" \/ Non200(resp)))
        => /\ pc \in {"attempt", "fallback", "returned"}
           /\ IsPrefix(log, ExhaustedLog(max_retries))
           /\ pc = "fallback" => log \o <<HtmlEvent>> = ExhaustedLog(max_retries)
           /\ pc = "returned" => log = ExhaustedLog(max_retries) /\ result = <<>>

C1_Witness ==
    /\ pc = "returned"
    /\ max_retries = 3
    /\ seen = {"status"}
    /\ Non200(resp)
    /\ Len(log) = 16
    /\ log[2] = [op |-> "sleep", secs |-> 1]
    /\ log[4] = [op |-> "sleep", secs |-> 2]
    /\ log[5] = [op |-> "get", endpoint |-> 1, attempt |-> 2, limit |-> limit]
    /\ log[6] = [op |-> "get", endpoint |-> 2, attempt |-> 0, limit |-> limit]

(* C2: whatever the remote answers, extract_coursera_courses never raises. *)
C2_NeverRaises == pc # "raised"

(* An element the elements branch is written for: an object whose partners *)
(* and skills, when present, are lists of objects.                         *)
ObjList(x) == x.t = "list" /\ \A i \in 1..Len(x.v) : x.v[i].t = "obj"
WellFormedElement(e) ==
    /\ e.t = "obj"
    /\ "partners" \in DOMAIN e.v => ObjList(e.v["partners"])
    /\ "skills" \in DOMAIN e.v => ObjList(e.v["skills"])

FieldOr(e, k, d) == IF k \in DOMAIN e.v THEN e.v[k] ELSE d
NameOr(p) == FieldOr(p, "name", JStr(""))
NamesOr(e, k) ==
    IF k \in DOMAIN e.v THEN JList([i \in 1..Len(e.v[k].v) |-> NameOr(e.v[k].v[i])])
    ELSE JList(<<>>)

(* C3: after a 200 response whose body has an "elements" list of          *)
(* well-formed elements, courses holds one record per element, in order,   *)
(* each with the eight keys, the element's id, name and slug, and the      *)
(* empty string or the empty list for every absent field; when there is a  *)
(* record, these records are what the call returns.                        *)
C3_ElementsMapping ==
    (/\ LastIsApiObject
     /\ "elements" \in DOMAIN resp.body.v
     /\ resp.body.v["elements"].t = "list"
     /\ \A i \in 1..Len(resp.body.v["elements"].v) :
            WellFormedElement(resp.body.v["elements"].v[i]))
        => LET els == resp.body.v["elements"].v IN
           /\ pc # "raised"
           /\ Len(courses) = Len(els)
           /\ \A i \in 1..Len(els) :
                /\ DOMAIN courses[i] = SummaryKeys
                /\ courses[i].id = FieldOr(els[i], "id", JStr(""))
                /\ courses[i].name = FieldOr(els[i], "name", JStr(""))
                /\ courses[i].slug = FieldOr(els[i], "slug", JStr(""))
                /\ courses[i].description = FieldOr(els[i], "description", JStr(""))
                /\ courses[i].avgLearningHours = FieldOr(els[i], "workload", JStr(""))
                /\ courses[i].rating = FieldOr(els[i], "rating", JStr(""))
                /\ courses[i].partnerNames = NamesOr(els[i], "partners")
                /\ courses[i].skills = NamesOr(els[i], "skills")
           /\ els # <<>> => pc = "returned" /\ result = courses

C3_Witness ==
    /\ pc = "returned"
    /\ LastIsApiObject
    /\ resp.body = JObj([elements |-> JList(<<JObj(EmptyFn), JObj(FullElem)>>)])
    /\ Len(result) = 2
    /\ result[1].description = JStr("")
    /\ result[2].id = JStr("c1")

(* The last response is "linked courses" shaped: its body has              *)
(* linked["courses.v1"], a list of objects.                                *)
LastIsLinkedShaped ==
    /\ LastIsApiObject
    /\ "linked" \in DOMAIN resp.body.v
    /\ resp.body.v["linked"].t = "obj"
    /\ "courses.v1" \in DOMAIN resp.body.v["linked"].v
    /\ ObjList(resp.body.v["linked"].v["courses.v1"])

LinkedMapped ==
    LET cs == resp.body.v["linked"].v["courses.v1"].v IN
    /\ pc # "raised"
    /\ Len(courses) = Len(cs)
    /\ \A i \in 1..Len(cs) :
        /\ DOMAIN courses[i] = SummaryKeys
        /\ courses[i].skills = FieldOr(cs[i], "topicIds", JList(<<>>))
        /\ courses[i].id = FieldOr(cs[i], "id", JStr(""))
    /\ cs # <<>> => pc = "returned" /\ result = courses

(* C4 as stated: after every 200 response that has linked["courses.v1"],   *)
(* courses holds one record per entry, with skills the entry's topicIds.   *)
C4_Original == LastIsLinkedShaped => LinkedMapped

(* C4, amended: after a 200 response that has linked["courses.v1"] and no  *)
(* "elements" key, courses holds one record per entry of                   *)
(* linked["courses.v1"], in order, with skills the entry's topicIds (the   *)
(* empty list when absent).                                                *)
C4_LinkedMapping ==
    (LastIsLinkedShaped /\ "elements" \notin DOMAIN resp.body.v) => LinkedMapped

C4_Witness ==
    /\ pc = "returned"
    /\ LastIsLinkedShaped
    /\ resp.body = JObj([linked |-> LinkedOf(<<JObj(FullEntry), JObj(Without(FullEntry, "topicIds"))>>)])
    /\ Len(result) = 2
    /\ result[1].skills = JList(<<JStr("t1"), JStr("t2")>>)
    /\ result[2].skills = JList(<<>>)

-----------------------------------------------------------------------------
(* Properties of extract_basic_info, under SpecDetails *)

(* The course metadata of the argument, when the path to it exists. *)
HasMetadata ==
    LET els == Path(response_data, <<"data", "XdpV1Resource", "slug", "elements">>) IN
    /\ els.st = "ok"
    /\ els.val.t = "list"
    /\ els.val.v # <<>>
    /\ Path(els.val.v[1], <<"xdpMetadata", "cdpMetadata">>).st = "ok"
    /\ Path(els.val.v[1], <<"xdpMetadata", "cdpMetadata">>).val.t = "obj"
Metadata ==
    response_data.v["data"].v["XdpV1Resource"].v["slug"].v["elements"].v[1]
        .v["xdpMetadata"].v["cdpMetadata"]

(* C5 as stated: a description of more than 100 characters becomes its     *)
(* first 100 characters followed by "...", and one of fewer than 100       *)
(* characters is returned unchanged.                                       *)
C5_Description ==
    (/\ dpc = "returned"
     /\ info # JNull
     /\ HasMetadata
     /\ "description" \in DOMAIN Metadata.v
     /\ Metadata.v["description"].t = "str")
        => LET d == Metadata.v["description"].v IN
           /\ Len(d) > DescLimit
                => info.v["description"] = JStr(SubSeq(d, 1, DescLimit) \o Ellipsis)
           /\ Len(d) < DescLimit => info.v["description"] = JStr(d)

MetaKeys == {"name", "description", "level", "workload", "skills", "partners", "instructors"}

(* One of the expected keys is absent from the argument, the argument is   *)
(* None, or its elements list is empty.                                    *)
LacksExpected ==
    \/ ~HasMetadata
    \/ \E k \in MetaKeys : k \notin DOMAIN Metadata.v

(* C6: extract_basic_info never raises; it returns None when the argument  *)
(* is None, has an empty elements list or lacks an expected key; and what  *)
(* it returns is None or a record with all nine fields.                    *)
C6_NoneOrComplete ==
    /\ dpc # "raised"
    /\ dpc = "returned"
        => /\ info = JNull \/ (info.t = "obj" /\ DOMAIN info.v = InfoKeys)
           /\ LacksExpected => info = JNull

C6_Witness ==
    /\ dpc = "returned"
    /\ response_data = Wrap(JObj(Without(FullMeta(DescText(3), 2), "level")))
    /\ info = JNull

StrList(x) == x.t = "list" /\ \A i \in 1..Len(x.v) : x.v[i].t = "str"
HasAll(x, key) ==
    /\ x.t = "list"
    /\ \A i \in 1..Len(x.v) : x.v[i].t = "obj" /\ key \in DOMAIN x.v[i].v

(* The metadata is complete but for the ratings key. *)
CompleteButRatings ==
    /\ HasMetadata
    /\ DOMAIN Metadata.v = MetaKeys
    /\ Metadata.v["description"].t \in {"str", "null"}
    /\ StrList(Metadata.v["skills"])
    /\ HasAll(Metadata.v["partners"], "name")
    /\ HasAll(Metadata.v["instructors"], "fullName")

(* C7: for a response that is complete but has no "ratings" key,           *)
(* extract_basic_info returns a record whose rating and ratingCount are    *)
(* both "N/A", and does not raise.                                         *)
C7_NoRatings ==
    (dpc # "call" /\ CompleteButRatings)
        => /\ dpc = "returned"
           /\ info # JNull
           /\ info.v["rating"] = NotAvailable
           /\ info.v["ratingCount"] = NotAvailable

C7_Witness ==
    /\ dpc = "returned"
    /\ CompleteButRatings
    /\ info # JNull
    /\ info.v["rating"] = JStr(<<"N", "/", "A">>)
    /\ info.v["name"] = JStr(<<"M">>)

-----------------------------------------------------------------------------
(* Properties of ensure_bucket_exists and upload_to_gcs, under SpecStorage *)

(* The number of roles/storage.objectViewer bindings that list user:u. *)
ViewerCount(pol, u) ==
    Cardinality({i \in 1..Len(pol) :
                    pol[i].role = "roles/storage.objectViewer" /\ <<"user", u>> \in pol[i].members})

(* C8: granting read access is idempotent.  The calls of                   *)
(* ensure_bucket_exists(bucket, user_email=u) append at most one           *)
(* objectViewer binding for user:u, and none when u had that grant before  *)
(* the first call; once a call has returned True, u has the grant, by      *)
(* exactly one appended binding unless u had it already; and every call    *)
(* after that one leaves the policy unchanged and does not call            *)
(* set_iam_policy.                                                         *)
C8_IdempotentGrant ==
    /\ \A u \in Users :
        /\ granted[u] <= 1
        /\ ViewerCount(storage0.policy, u) > 0 => granted[u] = 0
        /\ ViewerCount(policy, u) = ViewerCount(storage0.policy, u) + granted[u]
        /\ u \in succeeded
            => /\ ViewerCount(policy, u) >= 1
               /\ granted[u] = IF ViewerCount(storage0.policy, u) > 0 THEN 0 ELSE 1
    /\ (last.fn = "ensure_bucket_exists" /\ last.repeated)
        => ~last.changed /\ "set_iam_policy" \notin Range(last.ops)

C8_Witness ==
    /\ libAvailable
    /\ last.fn = "ensure_bucket_exists"
    /\ last.user = "bob@x"
    /\ last.repeated
    /\ last.ret = "True"
    /\ granted["bob@x"] = 1
    /\ ViewerCount(policy, "bob@x") = 1
    /\ Len(policy) = Len(storage0.policy) + 1

(* C9: when the client library cannot be imported, upload_to_gcs returns   *)
(* None, ensure_bucket_exists returns False, and no storage operation is   *)
(* performed: no client, no bucket, no blob, no policy change.             *)
C9_NoLibrary ==
    ~libAvailable
        => /\ ops = {}
           /\ last.ops = <<>>
           /\ bucketExists = storage0.exists
           /\ policy = storage0.policy
           /\ blobs = {}
           /\ last.fn = "upload_to_gcs" => last.ret = "None"
           /\ last.fn = "ensure_bucket_exists" => last.ret = "False"

C9_Witness ==
    /\ ~libAvailable
    /\ called = {"upload_to_gcs", "ensure_bucket_exists"}
    /\ last.fn = "ensure_bucket_exists"
    /\ last.user = "ann@x"
    /\ last.ret = "False"
    /\ ~storage0.exists

-----------------------------------------------------------------------------
(* Properties of convert_to_csv, under SpecCsv *)

NoLineBreak(q) == \A i \in 1..Len(q) : q[i] \notin {"\n", "\r"}

(* C10 as stated: no string field of any row built by convert_to_csv       *)
(* contains a newline or a carriage return.                                *)
C10_NoLineBreaks ==
    (cpc = "done" /\ csvRet = "path")
        => \A i \in 1..Len(rows) : \A f \in DOMAIN rows[i] :
                rows[i][f].t = "str" => NoLineBreak(rows[i][f].v)

-----------------------------------------------------------------------------
(* C11: a call with limit = L returns at most L course records, whichever  *)
(* source produced them (one of the three endpoints or the HTML fallback)  *)
(* and however many entries the answer of the remote holds.                *)
C11_AtMostLimit == pc = "returned" => Len(result) <= limit

(* The positions of log that hold the request for the browse page. *)
HtmlAt == {i \in DOMAIN log : log[i].op = "html"}

IsGet(ev) == ev.op = "get"

(* The requests to the endpoints issued before position i of log, in order. *)
GetsBefore(i) == SelectSeq(SubSeq(log, 1, i - 1), IsGet)

(* The answer to the browse request is a 200 page whose script tag holds   *)
(* parsable JSON with at least one entry under browse.courses.             *)
HasBrowseCourses(h) ==
    /\ h.kind = "http"
    /\ h.status = OkStatus
    /\ h.body \notin {NoMatch, NotJson}
    /\ h.body.t = "obj"
    /\ "browse" \in DOMAIN h.body.v
    /\ h.body.v.browse.t = "obj"
    /\ "courses" \in DOMAIN h.body.v.browse.v
    /\ h.body.v.browse.v.courses.t = "obj"
    /\ DOMAIN h.body.v.browse.v.courses.v # {}

(* C12: the request for the browse page is issued at most once, it is the  *)
(* last thing the call does before it returns, and before it each of the   *)
(* three endpoints got exactly max_retries requests, attempts 0 to         *)
(* max_retries - 1, in endpoint order; the call then returns the empty     *)
(* list unless the page holds browse.courses entries, and then it returns  *)
(* either one record per entry or (on an exception) the empty list.        *)
C12_FallbackLast ==
    /\ Cardinality(HtmlAt) <= 1
    /\ \A i \in HtmlAt :
        LET g == GetsBefore(i) IN
        /\ i = Len(log)
        /\ pc = "returned"
        /\ Len(g) = 3 * max_retries
        /\ \A k \in 1..Len(g) :
            /\ g[k].endpoint = ((k - 1) \div max_retries) + 1
            /\ g[k].attempt = (k - 1) % max_retries
        /\ result = courses
        /\ \/ result = <<>>
           \/ /\ HasBrowseCourses(resp)
              /\ Len(result) = Cardinality(DOMAIN resp.body.v.browse.v.courses.v)

C12_Witness ==
    /\ pc = "returned"
    /\ HtmlAt = {Len(log)}
    /\ max_retries = 2
    /\ Len(GetsBefore(Len(log))) = 6
    /\ {"neterr", "nocourses"} \subseteq seen
    /\ resp = Http(OkStatus, JObj([browse |-> JObj(EmptyFn)]))
    /\ result = <<>>

HandledFailures == {"status", "neterr", "badjson"}

(* C13: a network exception and a JSON parse exception are handled like a  *)
(* non-200 status: as long as every failed attempt was of one of these     *)
(* three kinds, the requests and sleeps so far are the start of the        *)
(* sequence that non-200 answers alone produce (max_retries attempts per   *)
(* endpoint in order, a sleep of 2^attempt seconds after each but the last *)
(* of an endpoint, then the browse page), and the next request is the one  *)
(* that follows in that sequence.                                          *)
C13_FailuresAlike ==
    seen \subseteq HandledFailures
        => LET ref == ExhaustedLog(max_retries) IN
           /\ IsPrefix(log, ref)
           /\ pc = "attempt" => ref[Len(log) + 1] = GetEvent(endpoint, attempt)
           /\ pc = "fallback" => ref[Len(log) + 1] = HtmlEvent /\ Len(ref) = Len(log) + 1

C13_Witness ==
    /\ pc = "returned"
    /\ max_retries = 3
    /\ seen = {"neterr", "badjson"}
    /\ log = ExhaustedLog(max_retries)
    /\ Len(log) = 16
    /\ log[2] = SleepEvent(0)
    /\ log[4] = SleepEvent(1)
    /\ log[5].op = "get"
    /\ log[6].op = "get"

(* The last event of a log is a request, not a sleep. *)
EndsWithRequest(l) == l # <<>> /\ l[Len(l)].op \in {"get", "html"}

(* The records one response alone gives: those of the browse page when the *)
(* request was for it, else those of the body of the API answer.           *)
RecordsOf(r, ev) ==
    IF ev.op = "html" THEN FallbackCourses(r) ELSE Parsed[r.body].val

(* C14: a step in which a response gives at least one course issues that   *)
(* one request and nothing after it (no sleep) and ends the call; once a   *)
(* response has given a course no step follows: no further request, no     *)
(* further sleep, and the result stays as it is; and the result is then    *)
(* the records of that response alone.                                     *)
C14_ReturnsAtOnce ==
    /\ [][ /\ courses = <<>>
           /\ pc \in {"attempt", "fallback"}
           /\ courses' # <<>> =>
               /\ pc' = "returned"
               /\ Len(log') = Len(log) + 1
               /\ SubSeq(log', 1, Len(log)) = log
               /\ EndsWithRequest(log')
           /\ courses' = <<>> => result' = <<>> ]_vars
    /\ [](courses # <<>> =>
            /\ result = courses
            /\ result = RecordsOf(resp, log[Len(log)]))

C14_Witness ==
    /\ pc = "returned"
    /\ max_retries = 2
    /\ seen = {"neterr"}
    /\ log = <<GetEvent(1, 0), SleepEvent(0), GetEvent(1, 1), GetEvent(2, 0)>>
    /\ resp.kind = "http"
    /\ resp.status = OkStatus
    /\ Len(result) = 2
    /\ result = courses

====
